---- MODULE Spec2Model ----
(***************************************************************************)
(* Portal-Launcher: the Steam library scan of main.js (getSteamPaths,      *)
(* getSteamLibraries, getSteamUsers, readUserPlaytime, fetchThumbnail,     *)
(* isActualGame, fetchAllGames, the 'get-games' IPC handler) and the       *)
(* renderer of src/js/script.js (loadGames, filterGames, sortGames,        *)
(* renderGames).                                                           *)
(*                                                                         *)
(* JavaScript strings are sequences of one-character strings, so that      *)
(* toLowerCase, includes, trim and parseInt are computed, not assumed.     *)
(* A JavaScript number is a record [nan |-> BOOLEAN, v |-> Int].           *)
(* An object read from a VDF file is a function from its keys (TLA+        *)
(* strings) to values; a missing key is a key outside its DOMAIN.          *)
(***************************************************************************)
EXTENDS Integers, Sequences, FiniteSets, TLC

\* ---------------------------------------------------------------- bounds
\* manifests listed in one library directory
MaxManifests == 2
\* user profiles under one installation root
MaxUsers == 2
\* folders declared in one libraryfolders.vdf
MaxFolders == 2
\* catalog builds the renderer starts (initial load + refresh clicks)
MaxLoads == 3

\* ------------------------------------------------- JavaScript strings
UpperChars == <<"A","B","C","D","E","F","G","H","I","J","K","L","M","N","O","P","Q","R","S","T","U","V","W","X","Y","Z">>
LowerChars == <<"a","b","c","d","e","f","g","h","i","j","k","l","m","n","o","p","q","r","s","t","u","v","w","x","y","z">>

LowerChar(c) ==
    IF \E i \in 1..Len(UpperChars) : UpperChars[i] = c
    THEN LowerChars[CHOOSE i \in 1..Len(UpperChars) : UpperChars[i] = c]
    ELSE c

UpperChar(c) ==
    IF \E i \in 1..Len(LowerChars) : LowerChars[i] = c
    THEN UpperChars[CHOOSE i \in 1..Len(LowerChars) : LowerChars[i] = c]
    ELSE c

toLowerCase(s) == [i \in 1..Len(s) |-> LowerChar(s[i])]

toUpperCase(s) == [i \in 1..Len(s) |-> UpperChar(s[i])]

includes(s, p) == \E i \in 1..(Len(s) - Len(p) + 1) : SubSeq(s, i, i + Len(p) - 1) = p

startsWith(s, p) == Len(s) >= Len(p) /\ SubSeq(s, 1, Len(p)) = p

endsWith(s, p) == Len(s) >= Len(p) /\ SubSeq(s, Len(s) - Len(p) + 1, Len(s)) = p

WhiteSpace == {" ", "\t", "\n", "\r"}

RECURSIVE trimStart(_)
trimStart(s) == IF s # <<>> /\ Head(s) \in WhiteSpace THEN trimStart(Tail(s)) ELSE s

RECURSIVE trimEnd(_)
trimEnd(s) ==
    IF s # <<>> /\ s[Len(s)] \in WhiteSpace THEN trimEnd(SubSeq(s, 1, Len(s) - 1)) ELSE s

trim(s) == trimEnd(trimStart(s))

\* the elements of a sequence
SeqRange(s) == { s[i] : i \in 1..Len(s) }

\* ------------------------------------------------- JavaScript numbers
Num(n) == [nan |-> FALSE, v |-> n]

NaN == [nan |-> TRUE, v |-> 0]

Digits == <<"0","1","2","3","4","5","6","7","8","9">>

IsDigit(c) == \E i \in 1..10 : Digits[i] = c

DigitVal(c) == (CHOOSE i \in 1..10 : Digits[i] = c) - 1

RECURSIVE DigitRun(_, _)
\* value of the longest prefix of digits of s, accumulated from acc
DigitRun(s, acc) ==
    IF s # <<>> /\ IsDigit(Head(s)) THEN DigitRun(Tail(s), 10 * acc + DigitVal(Head(s))) ELSE acc

\* parseInt(s, 10): leading white space, an optional sign, then digits;
\* NaN when no digit follows
parseInt(s) ==
    LET t == trimStart(s)
        neg == t # <<>> /\ Head(t) = "-"
        u == IF t # <<>> /\ Head(t) \in {"-", "+"} THEN Tail(t) ELSE t
    IN  IF u = <<>> \/ ~IsDigit(Head(u)) THEN NaN
        ELSE Num(IF neg THEN 0 - DigitRun(u, 0) ELSE DigitRun(u, 0))

\* x & 4 on ToInt32(x): NaN converts to 0; bit 2 of the two's complement
BitAnd4(x) == IF x.nan THEN 0 ELSE IF (x.v \div 4) % 2 = 1 THEN 4 ELSE 0

\* ------------------------------------------------- objects from vdf.parse
\* obj.key || dflt, for a key whose value is a string
Truthy(obj, key) == key \in DOMAIN obj /\ obj[key] # <<>>

OrElse(obj, key, dflt) == IF Truthy(obj, key) THEN obj[key] ELSE dflt

\* ------------------------------------------------- isActualGame
nonGameAppIds ==
    { <<"2", "2", "8", "9", "8", "0">>, <<"1", "0", "7", "0", "5", "6", "0">>, <<"1", "3", "9", "1", "1", "1", "0">>, <<"1", "6", "2", "8", "3", "5", "0">>, <<"3", "2", "3", "3", "7", "0">>, <<"8", "5", "8", "2", "8", "0">>, <<"9", "9", "6", "5", "1", "0">>,
      <<"1", "0", "5", "4", "8", "3", "0">>, <<"1", "1", "1", "3", "2", "8", "0">>, <<"1", "2", "4", "5", "0", "4", "0">>, <<"1", "4", "2", "0", "1", "7", "0">>, <<"1", "8", "8", "7", "7", "2", "0">>, <<"2", "1", "8", "0", "1", "0", "0">> }

nonGamePatterns ==
    << <<"s", "t", "e", "a", "m", "w", "o", "r", "k", "s">>, <<"r", "e", "d", "i", "s", "t", "r", "i", "b", "u", "t", "a", "b", "l", "e">>, <<"r", "e", "d", "i", "s", "t">>, <<"v", "c", "r", "e", "d", "i", "s", "t">>, <<"d", "i", "r", "e", "c", "t", "x">>, <<"r", "u", "n", "t", "i", "m", "e">>,
       <<"p", "r", "o", "t", "o", "n">>, <<"s", "t", "e", "a", "m", " ", "l", "i", "n", "u", "x", " ", "r", "u", "n", "t", "i", "m", "e">>, <<"c", "o", "m", "m", "o", "n", " ", "r", "e", "d", "i", "s", "t", "r", "i", "b", "u", "t", "a", "b", "l", "e", "s">>, <<"s", "p", "a", "c", "e", "w", "a", "r">>,
       <<"s", "t", "e", "a", "m", " ", "c", "o", "n", "t", "r", "o", "l", "l", "e", "r">>, <<"s", "t", "e", "a", "m", " ", "l", "i", "n", "k">>, <<"b", "e", "n", "c", "h", "m", "a", "r", "k">>, <<"d", "e", "m", "o">>, <<"b", "e", "t", "a">>, <<"t", "e", "s", "t">>,
       <<"d", "e", "v", "e", "l", "o", "p", "m", "e", "n", "t">>, <<"s", "d", "k">>, <<"t", "o", "o", "l", "k", "i", "t">>, <<"e", "d", "i", "t", "o", "r">>, <<"l", "a", "u", "n", "c", "h", "e", "r">>, <<"u", "p", "d", "a", "t", "e", "r">> >>

nonGameDirPatterns ==
    << <<"s", "t", "e", "a", "m", "w", "o", "r", "k", "s">>, <<"r", "e", "d", "i", "s", "t">>, <<"r", "u", "n", "t", "i", "m", "e">>, <<"p", "r", "o", "t", "o", "n">>, <<"c", "o", "m", "m", "o", "n", "_", "r", "e", "d", "i", "s", "t">> >>

toolTypes == { <<"t", "o", "o", "l">>, <<"c", "o", "n", "f", "i", "g">>, <<"a", "p", "p", "l", "i", "c", "a", "t", "i", "o", "n">> }

\* the variant that compares the display name without lower-casing it
isActualGameCaseSensitive(appInfo, appid) ==
    LET name == OrElse(appInfo, "name", <<>>)
        installDir == toLowerCase(OrElse(appInfo, "installdir", <<>>))
        toolType == toLowerCase(OrElse(appInfo, "type", <<>>))
    IN  IF appid \in nonGameAppIds THEN FALSE
        ELSE IF \E i \in 1..Len(nonGamePatterns) : includes(name, nonGamePatterns[i]) THEN FALSE
        ELSE IF \E i \in 1..Len(nonGameDirPatterns) : includes(installDir, nonGameDirPatterns[i])
             THEN FALSE
        ELSE IF ~Truthy(appInfo, "name") \/ Len(trim(appInfo["name"])) = 0 THEN FALSE
        ELSE IF toolType \in toolTypes THEN FALSE
        ELSE TRUE

isActualGame(appInfo, appid) ==
    LET name == toLowerCase(OrElse(appInfo, "name", <<>>))
        installDir == toLowerCase(OrElse(appInfo, "installdir", <<>>))
        toolType == toLowerCase(OrElse(appInfo, "type", <<>>))
    IN  IF appid \in nonGameAppIds THEN FALSE
        ELSE IF \E i \in 1..Len(nonGamePatterns) : includes(name, nonGamePatterns[i]) THEN FALSE
        ELSE IF \E i \in 1..Len(nonGameDirPatterns) : includes(installDir, nonGameDirPatterns[i])
             THEN FALSE
        ELSE IF ~Truthy(appInfo, "name") \/ Len(trim(appInfo["name"])) = 0 THEN FALSE
        ELSE IF toolType \in toolTypes THEN FALSE
        ELSE TRUE

\* ------------------------------------------------- state
VARIABLES
    env,   \* the machine: platform, process environment, file system, clock
    call,  \* one call of a pure function: its inputs and, once made, its result
    pc,            \* where the 'get-games' handler and its fetchAllGames stand
    steamBases,    \* fetchAllGames: the installation roots found
    bi,            \* index of the root being processed (for base of steamBases)
    libraries,     \* libraries of that root
    userPlaytimes, \* user -> title -> minutes, of that root
    li,            \* index of the library being processed
    manifests,     \* manifest file names of that library
    mi,            \* index of the manifest being processed
    pending,       \* the entry whose thumbnail is awaited
    allGames,      \* fetchAllGames: the list being built
    origin,        \* history: the manifest file each element of allGames came from
    lookups,       \* history: the appids fetchThumbnail was called with
    outcome,       \* what the caller of get-games has received: none, returned, error
    delivered,     \* the list the caller has received
    uiAllGames,     \* script.js: allGames
    filteredGames,  \* script.js: filteredGames
    currentSort,    \* script.js: currentSort
    activeSort,     \* the sort button that carries the class active
    gamesGrid,      \* content of #games-grid
    sidebarLibrary, \* content of #sidebar-library
    gamesCount,     \* text of #games-count
    searchBoxes,    \* values of #library-filter and #main-search
    inFlight,       \* getGames calls of the renderer not yet settled
    started,        \* history: loadGames calls made
    lastLoad        \* history: how the latest settled getGames call ended

uiVars ==
    << uiAllGames, filteredGames, currentSort, activeSort, gamesGrid, sidebarLibrary, gamesCount,
       searchBoxes, inFlight, started, lastLoad >>

vars ==
    << uiVars, env, call, pc, steamBases, bi, libraries, userPlaytimes, li, manifests, mi, pending,
       allGames, origin, lookups, outcome, delivered >>

scanVars ==
    << pc, steamBases, bi, libraries, userPlaytimes, li, manifests, mi, pending, allGames,
       origin, lookups, outcome, delivered >>


\* ------------------------------------------------- paths and the file system
\* A path is the sequence of its segments; path.join and path.normalize
\* produce such a sequence from strings. All paths are absolute (the
\* descriptor lists absolute paths); on win32 the first segment is the drive.
Separators == IF env.platform = "win32" THEN {"/", "\\"} ELSE {"/"}

RECURSIVE SplitFrom(_, _)
\* the segments of the string s, cur being the segment read so far
SplitFrom(s, cur) ==
    IF s = <<>> THEN <<cur>>
    ELSE IF Head(s) \in Separators THEN <<cur>> \o SplitFrom(Tail(s), <<>>)
    ELSE SplitFrom(Tail(s), Append(cur, Head(s)))

Split(s) == SplitFrom(s, <<>>)

RECURSIVE NormalizeFrom(_, _)
\* path.normalize: "" and "." are dropped, ".." removes the segment before it
NormalizeFrom(segs, acc) ==
    IF segs = <<>> THEN acc
    ELSE IF Head(segs) \in { <<>>, <<".">> } THEN NormalizeFrom(Tail(segs), acc)
    ELSE IF Head(segs) = <<".", ".">>
         THEN NormalizeFrom(Tail(segs), IF acc = <<>> THEN acc ELSE SubSeq(acc, 1, Len(acc) - 1))
    ELSE NormalizeFrom(Tail(segs), Append(acc, Head(segs)))

Normalize(segs) == NormalizeFrom(segs, <<>>)

\* path.join(p, ...names) for a path and further segments
join(p, names) == Normalize(p \o names)

\* path.join(s, ...names) for a string s
joinString(s, names) == Normalize(Split(s) \o names)

\* the directory or file a path leads to, through the symbolic links
Real(p) ==
    IF \E l \in env.links : Len(p) >= Len(l[1]) /\ SubSeq(p, 1, Len(l[1])) = l[1]
    THEN LET l == CHOOSE l \in env.links : Len(p) >= Len(l[1]) /\ SubSeq(p, 1, Len(l[1])) = l[1]
         IN  l[2] \o SubSeq(p, Len(l[1]) + 1, Len(p))
    ELSE p

existsSync(p) == Real(p) \in DOMAIN env.fs

\* fs.existsSync of a string: the empty string names nothing
existsSyncString(s) == s # <<>> /\ existsSync(Normalize(Split(s)))

Null == [ok |-> FALSE]

\* parseVDF (main.js): null when the file cannot be read or vdf.parse throws
parseVDF(filePath) ==
    IF existsSync(filePath) /\ env.fs[Real(filePath)].kind = "file" /\ env.fs[Real(filePath)].ok
    THEN [ok |-> TRUE, tree |-> env.fs[Real(filePath)].tree]
    ELSE Null

\* ------------------------------------------------- for (key in object)
\* An object whose order of keys matters is a sequence of [key, val] with
\* distinct keys, in the order of the file.
AllDigits(s) == \A i \in 1..Len(s) : IsDigit(s[i])

\* an integer index key ("0", "7", "12"): enumerated first, in ascending order
IsArrayIndex(k) == k # <<>> /\ AllDigits(k) /\ (Len(k) = 1 \/ Head(k) # "0")

\* !isNaN(key) for keys that are blank or (signed) decimal integers or words
IsNumericString(k) ==
    LET t == trim(k)
        u == IF t # <<>> /\ Head(t) \in {"-", "+"} THEN Tail(t) ELSE t
    IN  t = <<>> \/ (u # <<>> /\ AllDigits(u))

RECURSIVE SortIndexKeys(_, _)
\* the positions pos of obj in ascending order of their integer keys
SortIndexKeys(obj, pos) ==
    IF pos = {} THEN <<>>
    ELSE LET m == CHOOSE i \in pos :
                    \A j \in pos : DigitRun(obj[i].key, 0) <= DigitRun(obj[j].key, 0)
         IN  <<m>> \o SortIndexKeys(obj, pos \ {m})

RECURSIVE Ascending(_, _)
\* the positions pos in ascending order, from position i on
Ascending(pos, i) ==
    IF pos = {} THEN <<>>
    ELSE IF i \in pos THEN <<i>> \o Ascending(pos \ {i}, i + 1)
    ELSE Ascending(pos, i + 1)

\* the positions of obj in the order for-in visits them
ForIn(obj) ==
    LET idx == { i \in 1..Len(obj) : IsArrayIndex(obj[i].key) }
    IN  SortIndexKeys(obj, idx) \o Ascending((1..Len(obj)) \ idx, 1)

\* ------------------------------------------------- getSteamLibraries
RECURSIVE Dedup(_, _)
\* Array.from(new Set(xs)): the first occurrence of each element, in order
Dedup(xs, seen) ==
    IF xs = <<>> THEN <<>>
    ELSE IF Head(xs) \in seen THEN Dedup(Tail(xs), seen)
    ELSE <<Head(xs)>> \o Dedup(Tail(xs), seen \cup {Head(xs)})

\* the variant that returns the list without passing it through a Set
ArrayFromSetKeepAll(xs) == xs

ArrayFromSet(xs) == Dedup(xs, {})

\* libPath.replace(/\\\\/g, '/'): every two consecutive backslashes become a slash
RECURSIVE replaceDoubleBackslash(_)
replaceDoubleBackslash(s) ==
    IF Len(s) >= 2 /\ s[1] = "\\" /\ s[2] = "\\"
    THEN <<"/">> \o replaceDoubleBackslash(SubSeq(s, 3, Len(s)))
    ELSE IF s = <<>> THEN <<>>
    ELSE <<Head(s)>> \o replaceDoubleBackslash(Tail(s))

\* folders[key].path || folders[key]: a folder is a bare string, or an object
\* whose path field may be missing; isString tells typeof libPath === 'string'
FolderPath(val) ==
    IF val.kind = "string" THEN [isString |-> TRUE, s |-> val.path]
    ELSE IF val.hasPath /\ val.path # <<>> THEN [isString |-> TRUE, s |-> val.path]
    ELSE [isString |-> FALSE, s |-> <<>>]

RECURSIVE DeclaredLibraries(_, _)
\* the loop over the descriptor's folders, order being the for-in order
DeclaredLibraries(folders, order) ==
    IF order = <<>> THEN <<>>
    ELSE LET f == folders[Head(order)]
             lp == FolderPath(f.val)
             libPath == replaceDoubleBackslash(lp.s)
             rest == DeclaredLibraries(folders, Tail(order))
         IN  IF IsNumericString(f.key) /\ lp.isString /\ existsSyncString(libPath)
             THEN <<joinString(libPath, <<<<"s", "t", "e", "a", "m", "a", "p", "p", "s">>>>)>> \o rest
             ELSE rest

getSteamLibraries(basePath) ==
    LET primaryOnly == <<join(basePath, <<<<"s", "t", "e", "a", "m", "a", "p", "p", "s">>>>)>>
        vdfPath == join(basePath, <<<<"s", "t", "e", "a", "m", "a", "p", "p", "s">>, <<"l", "i", "b", "r", "a", "r", "y", "f", "o", "l", "d", "e", "r", "s", ".", "v", "d", "f">>>>)
        parsed == parseVDF(vdfPath)
        folders == IF "LibraryFolders" \in DOMAIN parsed.tree THEN parsed.tree["LibraryFolders"]
                   ELSE IF "libraryfolders" \in DOMAIN parsed.tree
                        THEN parsed.tree["libraryfolders"]
                        ELSE <<>>
    IN  IF ~existsSync(vdfPath) THEN primaryOnly
        ELSE IF ~parsed.ok THEN primaryOnly
        ELSE ArrayFromSet(primaryOnly \o DeclaredLibraries(folders, ForIn(folders)))

\* ------------------------------------------------- machines
\* a file system from a set of <<path, node>>
FsOf(pairs) == [p \in { x[1] : x \in pairs } |-> (CHOOSE x \in pairs : x[1] = p)[2]]

Dir(entries) == [kind |-> "dir", readable |-> TRUE, entries |-> entries]

UnreadableDir == [kind |-> "dir", readable |-> FALSE, entries |-> <<>>]

File(tree) == [kind |-> "file", ok |-> TRUE, tree |-> tree]

\* a file that cannot be read, or whose text vdf.parse rejects
BadFile == [kind |-> "file", ok |-> FALSE]

HomeDir == << <<"h", "o", "m", "e">>, <<"u">> >>

\* seconds since the epoch at the time of the scan: day 100
Now == 100 * 24 * 60 * 60

Machine(platform, links, fs) ==
    [platform |-> platform, programFiles |-> <<>>, programFilesX86 |-> <<>>,
     homedir |-> HomeDir, links |-> links, fs |-> fs, now |-> Now]

NoMachine == Machine("linux", {}, FsOf({}))

\* ------------------------------------------------- getSteamPaths
DefaultProgramFiles == <<"C", ":", "\\", "P", "r", "o", "g", "r", "a", "m", " ", "F", "i", "l", "e", "s">>

DefaultProgramFilesX86 == <<"C", ":", "\\", "P", "r", "o", "g", "r", "a", "m", " ", "F", "i", "l", "e", "s", " ", "(", "x", "8", "6", ")">>

\* the candidate roots of the platform, before the existence filter
CandidatePaths ==
    IF env.platform = "win32"
    THEN << joinString(IF env.programFiles # <<>> THEN env.programFiles
                       ELSE DefaultProgramFiles, << <<"S", "t", "e", "a", "m">> >>),
            joinString(IF env.programFilesX86 # <<>> THEN env.programFilesX86
                       ELSE DefaultProgramFilesX86, << <<"S", "t", "e", "a", "m">> >>) >>
    ELSE IF env.platform = "darwin"
    THEN << join(env.homedir, << <<"L", "i", "b", "r", "a", "r", "y">>, <<"A", "p", "p", "l", "i", "c", "a", "t", "i", "o", "n", " ", "S", "u", "p", "p", "o", "r", "t">>, <<"S", "t", "e", "a", "m">> >>) >>
    ELSE IF env.platform = "linux"
    THEN << join(env.homedir, << <<".", "s", "t", "e", "a", "m">>, <<"s", "t", "e", "a", "m">> >>),
            join(env.homedir, << <<".", "l", "o", "c", "a", "l">>, <<"s", "h", "a", "r", "e">>, <<"S", "t", "e", "a", "m">> >>) >>
    ELSE <<>>

getSteamPaths == SelectSeq(CandidatePaths, existsSync)

\* ------------------------------------------------- getSteamUsers
\* fs.readdirSync: throws unless the path is a directory that can be listed
readdirSync(p) ==
    IF existsSync(p) /\ env.fs[Real(p)].kind = "dir" /\ env.fs[Real(p)].readable
    THEN [ok |-> TRUE, names |-> env.fs[Real(p)].entries]
    ELSE [ok |-> FALSE, names |-> <<>>]

\* fs.statSync(p).isDirectory(); statSync throws when nothing is there
statSync(p) ==
    IF existsSync(p) THEN [ok |-> TRUE, isDirectory |-> env.fs[Real(p)].kind = "dir"]
    ELSE [ok |-> FALSE, isDirectory |-> FALSE]

getSteamUsers(basePath) ==
    LET userdataPath == join(basePath, << <<"u", "s", "e", "r", "d", "a", "t", "a">> >>)
        listing == readdirSync(userdataPath)
        Keep(f) == statSync(join(userdataPath, <<f>>)).isDirectory /\ IsNumericString(f)
    IN  IF ~existsSync(userdataPath) THEN <<>>
        ELSE IF ~listing.ok THEN <<>>
        ELSE IF \E i \in 1..Len(listing.names) : ~statSync(join(userdataPath, <<listing.names[i]>>)).ok
             THEN <<>>
        ELSE SelectSeq(listing.names, Keep)

\* ------------------------------------------------- readUserPlaytime
\* obj.A || obj.a for sections: an object (even an empty one) is truthy
HasEither(obj, A, a) == A \in DOMAIN obj \/ a \in DOMAIN obj

Either(obj, A, a) == IF A \in DOMAIN obj THEN obj[A] ELSE obj[a]

\* appData.Playtime || appData.playtime, the empty string being falsy
PlaytimeField(appData) ==
    IF Truthy(appData, <<"P", "l", "a", "y", "t", "i", "m", "e">>) THEN appData[<<"P", "l", "a", "y", "t", "i", "m", "e">>]
    ELSE OrElse(appData, <<"p", "l", "a", "y", "t", "i", "m", "e">>, <<>>)

\* the loop over apps: the titles whose playtime parses to more than 0
PlaytimesOf(apps) ==
    LET Minutes(appid) == parseInt(PlaytimeField(apps[appid]))
        kept == { appid \in DOMAIN apps :
                    /\ PlaytimeField(apps[appid]) # <<>>
                    /\ ~Minutes(appid).nan
                    /\ Minutes(appid).v > 0 }
    IN  [appid \in kept |-> Minutes(appid).v]

EmptyMap == [appid \in {} |-> 0]

readUserPlaytime(userPath) ==
    LET localConfigPath == join(userPath, << <<"c", "o", "n", "f", "i", "g">>, <<"l", "o", "c", "a", "l", "c", "o", "n", "f", "i", "g", ".", "v", "d", "f">> >>)
        parsed == parseVDF(localConfigPath)
    IN  IF ~existsSync(localConfigPath) THEN EmptyMap
        ELSE IF ~parsed.ok THEN EmptyMap
        ELSE IF ~HasEither(parsed.tree, <<"U", "s", "e", "r", "L", "o", "c", "a", "l", "C", "o", "n", "f", "i", "g", "S", "t", "o", "r", "e">>, <<"u", "s", "e", "r", "l", "o", "c", "a", "l", "c", "o", "n", "f", "i", "g", "s", "t", "o", "r", "e">>)
             THEN EmptyMap
        ELSE LET userStore == Either(parsed.tree, <<"U", "s", "e", "r", "L", "o", "c", "a", "l", "C", "o", "n", "f", "i", "g", "S", "t", "o", "r", "e">>, <<"u", "s", "e", "r", "l", "o", "c", "a", "l", "c", "o", "n", "f", "i", "g", "s", "t", "o", "r", "e">>)
             IN  IF ~HasEither(userStore, <<"S", "o", "f", "t", "w", "a", "r", "e">>, <<"s", "o", "f", "t", "w", "a", "r", "e">>) THEN EmptyMap
        ELSE LET software == Either(userStore, <<"S", "o", "f", "t", "w", "a", "r", "e">>, <<"s", "o", "f", "t", "w", "a", "r", "e">>)
             IN  IF ~HasEither(software, <<"V", "a", "l", "v", "e">>, <<"v", "a", "l", "v", "e">>) THEN EmptyMap
        ELSE LET valve == Either(software, <<"V", "a", "l", "v", "e">>, <<"v", "a", "l", "v", "e">>)
             IN  IF ~HasEither(valve, <<"S", "t", "e", "a", "m">>, <<"s", "t", "e", "a", "m">>) THEN EmptyMap
        ELSE LET steam == Either(valve, <<"S", "t", "e", "a", "m">>, <<"s", "t", "e", "a", "m">>)
             IN  IF ~HasEither(steam, <<"A", "p", "p", "s">>, <<"a", "p", "p", "s">>) THEN EmptyMap
        ELSE PlaytimesOf(Either(steam, <<"A", "p", "p", "s">>, <<"a", "p", "p", "s">>))

\* ------------------------------------------------- fetchThumbnail
\* What the store answers to the one GET: the request fails (timeout, network,
\* status outside 2xx), or a JSON body arrives.
Responses ==
    { [kind |-> "failed"],
      [kind |-> "json", hasEntry |-> FALSE, success |-> FALSE, hasData |-> FALSE],
      [kind |-> "json", hasEntry |-> TRUE, success |-> FALSE, hasData |-> FALSE],
      [kind |-> "json", hasEntry |-> TRUE, success |-> TRUE, hasData |-> FALSE],
      [kind |-> "json", hasEntry |-> TRUE, success |-> TRUE, hasData |-> TRUE] }

NoThumbnail == [set |-> FALSE, url |-> <<>>]

\* the header image the store serves for a title
HeaderImage(appid) == <<"i", "m", "g", "/">> \o appid

\* null when axios.get throws, when the body has no successful entry, and
\* when reading data.header_image throws inside the try
fetchThumbnail(appid, response) ==
    IF response.kind = "failed" THEN NoThumbnail
    ELSE IF response.hasEntry /\ response.success
         THEN IF response.hasData THEN [set |-> TRUE, url |-> HeaderImage(appid)]
              ELSE NoThumbnail
    ELSE NoThumbnail

\* ------------------------------------------------- fetchAllGames, per manifest
\* the variant that tests the flags for equality with 4
installedFilterEquals4(info) ==
    LET stateFlags == parseInt(OrElse(info, "StateFlags", <<"0">>)) IN ~stateFlags.nan /\ stateFlags.v = 4

\* the variant that lets every manifest through
installedFilterOff(info) == TRUE

\* (stateFlags & 4) === 4, the manifest is kept
installedFilter(info) ==
    LET stateFlags == parseInt(OrElse(info, "StateFlags", <<"0">>)) IN BitAnd4(stateFlags) = 4

IsZero(x) == ~x.nan /\ x.v = 0

Max(a, b) == IF a >= b THEN a ELSE b

\* userPlaytimes[user][appid] || 0
UserTime(ups, user, appid) == IF appid \in DOMAIN ups[user] THEN ups[user][appid] ELSE 0

RECURSIVE MaxUserTime(_, _, _)
\* the loop over the users, from playtime = 0
MaxUserTime(ups, users, appid) ==
    IF users = {} THEN 0
    ELSE LET u == CHOOSE u \in users : TRUE
         IN  Max(UserTime(ups, u, appid), MaxUserTime(ups, users \ {u}, appid))

mergePlaytime(ups, info, appid) ==
    LET p1 == Num(MaxUserTime(ups, DOMAIN ups, appid))
        p2 == IF IsZero(p1) /\ Truthy(info, "PlaytimeForever")
              THEN parseInt(info["PlaytimeForever"])
              ELSE p1
        lastUpdated == parseInt(OrElse(info, "LastUpdated", <<>>))
        \* daysSinceUpdate < 30, daysSinceUpdate = (now - lastUpdated) / (24 * 60 * 60)
        recent == ~lastUpdated.nan /\ env.now - lastUpdated.v < 30 * (24 * 60 * 60)
    IN  IF IsZero(p2) /\ Truthy(info, "LastUpdated") /\ recent THEN Num(1) ELSE p2

\* ------------------------------------------------- fetchAllGames and get-games
IsManifestName(f) == startsWith(f, <<"a", "p", "p", "m", "a", "n", "i", "f", "e", "s", "t", "_">>) /\ endsWith(f, <<".", "a", "c", "f">>)

NoEntry == [appid |-> <<>>]

\* the variant of the handler's catch block that answers with the list so far
GetGamesSwallows(games) == [outcome |-> "returned", delivered |-> games]

\* fetchAllGames throws: the handler logs and rethrows, the caller gets an Error
GetGamesThrows(games) == [outcome |-> "error", delivered |-> <<>>]

\* fetchAllGames returns: the handler returns the list
GetGamesReturns(games) == [outcome |-> "returned", delivered |-> games]

ScanIdle ==
    /\ pc = "idle" /\ steamBases = <<>> /\ bi = 0 /\ libraries = <<>>
    /\ userPlaytimes = [u \in {} |-> EmptyMap] /\ li = 0 /\ manifests = <<>> /\ mi = 0
    /\ pending = NoEntry /\ allGames = <<>> /\ origin = <<>> /\ lookups = <<>>
    /\ outcome = "none" /\ delivered = <<>>

\* the renderer invokes get-games: fetchAllGames runs up to its loop over the roots
GetGames ==
    /\ pc = "idle"
    /\ steamBases' = getSteamPaths
    /\ IF getSteamPaths = <<>>
       THEN /\ pc' = "done"
            /\ outcome' = GetGamesReturns(<<>>).outcome
            /\ delivered' = GetGamesReturns(<<>>).delivered
            /\ bi' = bi
       ELSE /\ pc' = "base" /\ bi' = 1
            /\ UNCHANGED << outcome, delivered >>
    /\ UNCHANGED << uiVars, env, call, libraries, userPlaytimes, li, manifests, mi, pending, allGames,
                    origin, lookups >>

\* for (const base of steamBases): libraries, users and their playtimes; after
\* the last root the list is returned
EnterBase ==
    /\ pc = "base"
    /\ IF bi > Len(steamBases)
       THEN /\ pc' = "done"
            /\ outcome' = GetGamesReturns(allGames).outcome
            /\ delivered' = GetGamesReturns(allGames).delivered
            /\ UNCHANGED << libraries, userPlaytimes, li >>
       ELSE LET base == steamBases[bi]
                users == getSteamUsers(base)
            IN  /\ libraries' = getSteamLibraries(base)
                /\ userPlaytimes' =
                     [u \in SeqRange(users) |-> readUserPlaytime(join(base, << <<"u", "s", "e", "r", "d", "a", "t", "a">>, u >>))]
                /\ li' = 1 /\ pc' = "lib"
                /\ UNCHANGED << outcome, delivered >>
    /\ UNCHANGED << uiVars, env, call, steamBases, bi, manifests, mi, pending, allGames, origin,
                    lookups >>

\* for (const lib of libraries): the existence test and the listing, which is
\* outside every try block
EnterLibrary ==
    /\ pc = "lib"
    /\ IF li > Len(libraries)
       THEN /\ pc' = "base" /\ bi' = bi + 1
            /\ UNCHANGED << li, manifests, mi, outcome, delivered >>
       ELSE IF ~existsSync(libraries[li])
       THEN /\ li' = li + 1
            /\ UNCHANGED << pc, bi, manifests, mi, outcome, delivered >>
       ELSE IF ~readdirSync(libraries[li]).ok
       THEN /\ pc' = "done"
            /\ outcome' = GetGamesThrows(allGames).outcome
            /\ delivered' = GetGamesThrows(allGames).delivered
            /\ UNCHANGED << bi, li, manifests, mi >>
       ELSE /\ manifests' = SelectSeq(readdirSync(libraries[li]).names, IsManifestName)
            /\ mi' = 1 /\ pc' = "manifest"
            /\ UNCHANGED << bi, li, outcome, delivered >>
    /\ UNCHANGED << uiVars, env, call, steamBases, libraries, userPlaytimes, pending, allGames, origin,
                    lookups >>

\* for (const manifest of manifests), up to the await of fetchThumbnail
ReadManifest ==
    /\ pc = "manifest"
    /\ IF mi > Len(manifests)
       THEN /\ pc' = "lib" /\ li' = li + 1
            /\ UNCHANGED << mi, pending, lookups >>
       ELSE LET lib == libraries[li]
                data == parseVDF(join(lib, << manifests[mi] >>))
                info == data.tree["AppState"]
                appid == OrElse(info, "appid", OrElse(info, "AppID", <<>>))
            IN  IF \/ ~data.ok
                   \/ "AppState" \notin DOMAIN data.tree
                   \/ appid = <<>>
                   \/ ~isActualGame(info, appid)
                   \/ ~installedFilter(info)
                THEN /\ mi' = mi + 1
                     /\ UNCHANGED << pc, li, pending, lookups >>
                ELSE /\ pending' =
                          [appid |-> appid,
                           title |-> OrElse(info, "name", <<"U", "n", "k", "n", "o", "w", "n">>),
                           installDir |->
                               Normalize(lib \o << <<"c", "o", "m", "m", "o", "n">> >>
                                         \o Split(OrElse(info, "installdir", <<>>))),
                           playtime |-> mergePlaytime(userPlaytimes, info, appid),
                           thumbnail |-> NoThumbnail,
                           raw |-> info]
                     /\ lookups' = Append(lookups, appid)
                     /\ pc' = "thumbnail"
                     /\ UNCHANGED << li, mi >>
    /\ UNCHANGED << uiVars, env, call, steamBases, bi, libraries, userPlaytimes, manifests, allGames,
                    origin, outcome, delivered >>

\* the awaited fetchThumbnail settles; allGames.push
ThumbnailSettles ==
    /\ pc = "thumbnail"
    /\ \E response \in Responses :
         allGames' = Append(allGames,
                            [pending EXCEPT !.thumbnail = fetchThumbnail(pending.appid, response)])
    /\ origin' = Append(origin, join(libraries[li], << manifests[mi] >>))
    /\ pending' = NoEntry
    /\ mi' = mi + 1 /\ pc' = "manifest"
    /\ UNCHANGED << uiVars, env, call, steamBases, bi, libraries, userPlaytimes, li, manifests, lookups,
                    outcome, delivered >>

\* ------------------------------------------------- script.js
\* a.localeCompare(b) < 0 for titles of letters, digits, blanks and hyphens:
\* the order of the characters, letters compared without their case
CharOrder == << " ", "-", "0", "1", "2", "3", "4", "5", "6", "7", "8", "9" >> \o LowerChars

CharRank(c) ==
    IF \E i \in 1..Len(CharOrder) : CharOrder[i] = LowerChar(c)
    THEN CHOOSE i \in 1..Len(CharOrder) : CharOrder[i] = LowerChar(c)
    ELSE 0

RECURSIVE localeLess(_, _)
localeLess(a, b) ==
    IF b = <<>> THEN FALSE
    ELSE IF a = <<>> THEN TRUE
    ELSE IF CharRank(Head(a)) # CharRank(Head(b)) THEN CharRank(Head(a)) < CharRank(Head(b))
    ELSE localeLess(Tail(a), Tail(b))

\* the comparator of sortGames(type) says a goes before b
Before(type, a, b) ==
    IF type = "name" THEN localeLess(a.title, b.title)
    ELSE IF type = "playtime" THEN b.playtime - a.playtime < 0
    ELSE IF type = "recent" THEN localeLess(b.title, a.title)
    ELSE FALSE

RECURSIVE InsertSorted(_, _, _)
\* g placed after the elements that do not go after it: the sort is stable
InsertSorted(type, sorted, g) ==
    IF sorted = <<>> THEN << g >>
    ELSE IF Before(type, g, Head(sorted)) THEN << g >> \o sorted
    ELSE << Head(sorted) >> \o InsertSorted(type, Tail(sorted), g)

RECURSIVE Sorted(_, _)
\* Array.prototype.sort with the comparator of type
Sorted(type, games) ==
    IF games = <<>> THEN <<>>
    ELSE InsertSorted(type, Sorted(type, SubSeq(games, 1, Len(games) - 1)), games[Len(games)])

Ids(games) == [i \in 1..Len(games) |-> games[i].appid]

\* what renderGames writes for the list games
RenderedGrid(games) ==
    IF games = <<>> THEN [view |-> "No games found", items |-> <<>>]
    ELSE [view |-> "cards", items |-> Ids(games)]

RenderedSidebar(games) ==
    IF games = <<>> THEN [view |-> "No games found", items |-> <<>>]
    ELSE [view |-> "items", items |-> Ids(SubSeq(games, 1, IF Len(games) < 20 THEN Len(games) ELSE 20))]

RenderedCount(games) == [text |-> "games", n |-> Len(games)]

\* sortGames(type), with the renderGames it ends with, on the list games
SortAndRender(type, games) ==
    /\ currentSort' = type
    /\ activeSort' = type
    /\ filteredGames' = Sorted(type, games)
    /\ gamesGrid' = RenderedGrid(Sorted(type, games))
    /\ sidebarLibrary' = RenderedSidebar(Sorted(type, games))
    /\ gamesCount' = RenderedCount(Sorted(type, games))

\* the catch block of loadGames
LoadFailed ==
    /\ gamesGrid' = [view |-> "Failed to load games", items |-> <<>>]
    /\ UNCHANGED << uiAllGames, filteredGames, currentSort, activeSort, sidebarLibrary,
                    gamesCount >>

\* the page as index.html gives it, nothing loaded
PageContent == [view |-> "page", items |-> <<>>]

\* after DOMContentLoaded: the listeners are set and the first loadGames waits
UiInit ==
    /\ uiAllGames = <<>> /\ filteredGames = <<>> /\ currentSort = "name" /\ activeSort = "page"
    /\ gamesGrid = PageContent /\ sidebarLibrary = PageContent
    /\ gamesCount = [text |-> "page", n |-> 0]
    /\ searchBoxes = [libraryFilter |-> <<>>, mainSearch |-> <<>>]
    /\ inFlight = 1 /\ started = 1 /\ lastLoad = "none"

\* no renderer
UiIdle ==
    /\ uiAllGames = <<>> /\ filteredGames = <<>> /\ currentSort = "name" /\ activeSort = "page"
    /\ gamesGrid = PageContent /\ sidebarLibrary = PageContent
    /\ gamesCount = [text |-> "page", n |-> 0]
    /\ searchBoxes = [libraryFilter |-> <<>>, mainSearch |-> <<>>]
    /\ inFlight = 0 /\ started = 0 /\ lastLoad = "none"

\* ------------------------------------------------- files of the scan
\* The file systems below list the nodes a scan can touch; the directories
\* above them exist and play no part.
AppState(info) == File([k \in {"AppState"} |-> info])

GameA ==
    AppState([appid |-> <<"4", "0", "0">>, name |-> <<"P", "o", "r", "t", "a", "l">>, installdir |-> <<"P", "o", "r", "t", "a", "l">>,
              StateFlags |-> <<"4">>, LastUpdated |-> <<"7", "7", "7", "6", "0", "0", "0">>])

GameB ==
    AppState([appid |-> <<"2", "2", "0">>, name |-> <<"H", "a", "l", "f", "-", "L", "i", "f", "e", " ", "2">>, installdir |-> <<"H", "a", "l", "f", "-", "L", "i", "f", "e", " ", "2">>,
              StateFlags |-> <<"6">>, PlaytimeForever |-> <<"1", "0">>])

GameUpperId ==
    AppState([AppID |-> <<"6", "2", "0">>, name |-> <<" ", "P", "o", "r", "t", "a", "l", " ", "2", " ">>, StateFlags |-> <<"5">>,
              LastUpdated |-> <<"5", "1", "8", "4", "0", "0", "0">>])

Updating ==
    AppState([appid |-> <<"7", "3", "0">>, name |-> <<"D", "o", "t", "a", " ", "2">>, installdir |-> <<"d", "o", "t", "a">>, StateFlags |-> <<"1", "0", "2", "6">>])

NoFlags == AppState([appid |-> <<"7", "4", "0">>, name |-> <<"C", "e", "l", "e", "s", "t", "e">>, installdir |-> <<"C", "e", "l", "e", "s", "t", "e">>])

Redistributable ==
    AppState([appid |-> <<"2", "2", "8", "9", "8", "0">>, name |-> <<"S", "t", "e", "a", "m", "w", "o", "r", "k", "s", " ", "C", "o", "m", "m", "o", "n", " ", "R", "e", "d", "i", "s", "t", "r", "i", "b", "u", "t", "a", "b", "l", "e", "s">>,
              installdir |-> <<"S", "t", "e", "a", "m", "w", "o", "r", "k", "s", " ", "S", "h", "a", "r", "e", "d">>, StateFlags |-> <<"4">>])

Demolition ==
    AppState([appid |-> <<"4", "5", "0">>, name |-> <<"D", "e", "m", "o", "l", "i", "t", "i", "o", "n", " ", "S", "q", "u", "a", "d">>, installdir |-> <<"D", "S">>,
              StateFlags |-> <<"4">>])

Nameless == AppState([appid |-> <<"4", "6", "0">>, name |-> <<" ", " ">>, StateFlags |-> <<"4">>])

NoAppId == AppState([name |-> <<"P", "o", "r", "t", "a", "l">>, installdir |-> <<"P", "o", "r", "t", "a", "l">>, StateFlags |-> <<"4">>])

NoAppState == File([k \in {"UserConfig"} |-> [language |-> <<"e", "n", "g", "l", "i", "s", "h">>]])

ManifestFiles ==
    { GameA, GameB, GameUpperId, Updating, NoFlags, Redistributable, Demolition, Nameless,
      NoAppId, NoAppState, BadFile }

\* the sequences over S of length at most n
RECURSIVE SeqsUpTo(_, _)
SeqsUpTo(S, n) ==
    IF n = 0 THEN { <<>> }
    ELSE LET shorter == SeqsUpTo(S, n - 1)
         IN  shorter \cup { Append(x, e) : x \in { y \in shorter : Len(y) = n - 1 }, e \in S }

\* Steam names a manifest file after the title: appmanifest_<appid>.acf; a file
\* without an identifier is named after its place in the listing
ManifestName(file, i) ==
    LET info == IF file.ok /\ "AppState" \in DOMAIN file.tree THEN file.tree["AppState"]
                ELSE [n \in {} |-> <<>>]
        id == OrElse(info, "appid", OrElse(info, "AppID", << Digits[i + 1] >>))
    IN  <<"a", "p", "p", "m", "a", "n", "i", "f", "e", "s", "t", "_">> \o id \o <<".", "a", "c", "f">>

DistinctNames(files) ==
    \A i, j \in 1..Len(files) : ManifestName(files[i], i) = ManifestName(files[j], j) => i = j

Missing == [kind |-> "missing"]

Unreadable == [kind |-> "unreadable"]

Listing(files) == [kind |-> "listing", files |-> files]

\* the nodes of a library directory: missing, not listable, or holding the
\* directory common, a stray file and the given manifest files
LibTree(lib, state) ==
    IF state.kind = "missing" THEN {}
    ELSE IF state.kind = "unreadable" THEN { << lib, UnreadableDir >> }
    ELSE { << lib, Dir(<< <<"c", "o", "m", "m", "o", "n">> >>
                       \o [i \in 1..Len(state.files) |-> ManifestName(state.files[i], i)]
                       \o << <<"a", "p", "p", "m", "a", "n", "i", "f", "e", "s", "t", "_", "9", ".", "t", "m", "p">> >>) >>,
           << lib \o << <<"c", "o", "m", "m", "o", "n">> >>, Dir(<<>>) >>,
           << lib \o << <<"a", "p", "p", "m", "a", "n", "i", "f", "e", "s", "t", "_", "9", ".", "t", "m", "p">> >>, BadFile >> }
         \cup { << lib \o << ManifestName(state.files[i], i) >>, state.files[i] >> :
                  i \in 1..Len(state.files) }

\* localconfig.vdf with the given spelling of its sections and the given apps
LocalConfig(store, software, valve, steam, apps, table) ==
    File([k1 \in {store} |-> [k2 \in {software} |-> [k3 \in {valve} |->
            [k4 \in {steam} |-> [k5 \in {apps} |-> table]]]]])

\* the per-title record holding one field
Field(key, value) == [k \in { key } |-> value]

ConfigFiles ==
    { LocalConfig(<<"U", "s", "e", "r", "L", "o", "c", "a", "l", "C", "o", "n", "f", "i", "g", "S", "t", "o", "r", "e">>, <<"S", "o", "f", "t", "w", "a", "r", "e">>, <<"V", "a", "l", "v", "e">>, <<"S", "t", "e", "a", "m">>, <<"A", "p", "p", "s">>,
                  [a \in { <<"4", "0", "0">> } |-> Field(<<"P", "l", "a", "y", "t", "i", "m", "e">>, <<"3", "0">>)]),
      LocalConfig(<<"u", "s", "e", "r", "l", "o", "c", "a", "l", "c", "o", "n", "f", "i", "g", "s", "t", "o", "r", "e">>, <<"s", "o", "f", "t", "w", "a", "r", "e">>, <<"v", "a", "l", "v", "e">>, <<"s", "t", "e", "a", "m">>, <<"a", "p", "p", "s">>,
                  [a \in { <<"4", "0", "0">>, <<"2", "2", "0">> } |->
                      IF a = <<"4", "0", "0">> THEN Field(<<"p", "l", "a", "y", "t", "i", "m", "e">>, <<"5">>) ELSE Field(<<"p", "l", "a", "y", "t", "i", "m", "e">>, <<"4", "5">>)]),
      LocalConfig(<<"U", "s", "e", "r", "L", "o", "c", "a", "l", "C", "o", "n", "f", "i", "g", "S", "t", "o", "r", "e">>, <<"S", "o", "f", "t", "w", "a", "r", "e">>, <<"V", "a", "l", "v", "e">>, <<"S", "t", "e", "a", "m">>, <<"A", "p", "p", "s">>,
                  [a \in { <<"4", "0", "0">>, <<"2", "2", "0">> } |->
                      IF a = <<"4", "0", "0">> THEN Field(<<"L", "a", "s", "t", "P", "l", "a", "y", "e", "d">>, <<"7", "7", "7", "6", "0", "0", "0">>)
                      ELSE Field(<<"P", "l", "a", "y", "t", "i", "m", "e">>, <<"0">>)]),
      LocalConfig(<<"U", "s", "e", "r", "L", "o", "c", "a", "l", "C", "o", "n", "f", "i", "g", "S", "t", "o", "r", "e">>, <<"S", "o", "f", "t", "w", "a", "r", "e">>, <<"V", "a", "l", "v", "e">>, <<"S", "t", "e", "a", "m">>, <<"a", "p", "p", "t", "i", "c", "k", "e", "t", "s">>,
                  [a \in { <<"4", "0", "0">> } |-> Field(<<"P", "l", "a", "y", "t", "i", "m", "e">>, <<"3", "0">>)]),
      BadFile }

UserIds == << <<"1", "1">>, <<"2", "2">>, <<"3", "3">>, <<"4", "4">> >>

\* the nodes of userdata: missing, not listable, or holding one profile per
\* given localconfig.vdf (Missing: the profile has none), a directory whose
\* name is no number and a file
UsersTree(root, state) ==
    LET userdata == root \o << <<"u", "s", "e", "r", "d", "a", "t", "a">> >>
    IN  IF state.kind = "missing" THEN {}
        ELSE IF state.kind = "unreadable" THEN { << userdata, UnreadableDir >> }
        ELSE { << userdata, Dir(<< <<"a", "n", "o", "n", "y", "m", "o", "u", "s">> >>
                                \o [i \in 1..Len(state.files) |-> UserIds[i]]
                                \o << <<"7">> >>) >>,
               << userdata \o << <<"a", "n", "o", "n", "y", "m", "o", "u", "s">> >>, Dir(<<>>) >>,
               << userdata \o << <<"7">> >>, BadFile >> }
             \cup { << userdata \o << UserIds[i] >>, Dir(<< <<"c", "o", "n", "f", "i", "g">> >>) >> :
                      i \in 1..Len(state.files) }
             \cup { << userdata \o << UserIds[i], <<"c", "o", "n", "f", "i", "g">>, <<"l", "o", "c", "a", "l", "c", "o", "n", "f", "i", "g", ".", "v", "d", "f">> >>,
                       state.files[i] >> :
                      i \in { j \in 1..Len(state.files) : state.files[j].kind # "missing" } }

\* the nodes of an installation root
RootTree(root, descriptor, primary, users) ==
    { << root, Dir(<< <<"s", "t", "e", "a", "m", "a", "p", "p", "s">>, <<"u", "s", "e", "r", "d", "a", "t", "a">> >>) >> }
    \cup LibTree(root \o << <<"s", "t", "e", "a", "m", "a", "p", "p", "s">> >>, primary)
    \cup (IF descriptor.kind = "missing" \/ primary.kind = "missing" THEN {}
          ELSE { << root \o << <<"s", "t", "e", "a", "m", "a", "p", "p", "s">>, <<"l", "i", "b", "r", "a", "r", "y", "f", "o", "l", "d", "e", "r", "s", ".", "v", "d", "f">> >>, descriptor >> })
    \cup UsersTree(root, users)

\* ------------------------------------------------- machines scanned
MacRoot == HomeDir \o << <<"L", "i", "b", "r", "a", "r", "y">>, <<"A", "p", "p", "l", "i", "c", "a", "t", "i", "o", "n", " ", "S", "u", "p", "p", "o", "r", "t">>, <<"S", "t", "e", "a", "m">> >>

DotSteam == HomeDir \o << <<".", "s", "t", "e", "a", "m">>, <<"s", "t", "e", "a", "m">> >>

LocalShare == HomeDir \o << <<".", "l", "o", "c", "a", "l">>, <<"s", "h", "a", "r", "e">>, <<"S", "t", "e", "a", "m">> >>

GamesDrive == << <<"m", "n", "t">>, <<"g", "a", "m", "e", "s">> >>

OneUser == Listing(<< CHOOSE c \in ConfigFiles : c.ok >>)

\* one root whose library holds any manifests, with two user setups
ManifestMachines ==
    { Machine("darwin", {}, FsOf(RootTree(MacRoot, Missing, lib, users))) :
        lib \in { Listing(fs) : fs \in { x \in SeqsUpTo(ManifestFiles, MaxManifests) : DistinctNames(x) } },
        users \in { Missing, OneUser } }

\* one root with any user profiles
UserMachines ==
    { Machine("darwin", {}, FsOf(RootTree(MacRoot, Missing, Listing(<< GameA, GameB >>), users))) :
        users \in { Missing, Unreadable }
                  \cup { Listing(cs) : cs \in SeqsUpTo(ConfigFiles \cup { Missing }, MaxUsers) } }

\* libraryfolders.vdf of a root: none, unreadable, the current format naming the
\* root itself (by its real path) and the games drive, the old format naming
\* the games drive
RootDescriptors ==
    { Missing, BadFile,
      File([t \in {"libraryfolders"} |->
              << [key |-> <<"0">>, val |-> [kind |-> "object", hasPath |-> TRUE,
                                         path |-> <<"/", "h", "o", "m", "e", "/", "u", "/", ".", "l", "o", "c", "a", "l", "/", "s", "h", "a", "r", "e", "/", "S", "t", "e", "a", "m">>]],
                 [key |-> <<"1">>, val |-> [kind |-> "object", hasPath |-> TRUE,
                                         path |-> <<"/", "m", "n", "t", "/", "g", "a", "m", "e", "s">>]] >>]),
      File([t \in {"LibraryFolders"} |->
              << [key |-> <<"T", "i", "m", "e", "N", "e", "x", "t", "S", "t", "a", "t", "s", "R", "e", "p", "o", "r", "t">>, val |-> [kind |-> "string", path |-> <<"1", "7">>]],
                 [key |-> <<"1">>, val |-> [kind |-> "string", path |-> <<"/", "m", "n", "t", "/", "g", "a", "m", "e", "s", "/">>]] >>]) }

PrimaryStates == { Listing(<< GameA >>), Listing(<< GameB, Redistributable >>), Unreadable }

DriveStates == { Listing(<< GameA >>), Listing(<< Updating, GameB >>), Unreadable, Missing }

DriveTree(state) ==
    { << GamesDrive, Dir(<< <<"s", "t", "e", "a", "m", "a", "p", "p", "s">> >>) >> } \cup LibTree(GamesDrive \o << <<"s", "t", "e", "a", "m", "a", "p", "p", "s">> >>, state)

\* linux: ~/.steam/steam and ~/.local/share/Steam are two installations, or
\* only one of them exists, or the first is a symbolic link to the second
LinuxMachines ==
    { Machine("linux", {},
              FsOf(RootTree(DotSteam, d1, p1, OneUser) \cup RootTree(LocalShare, d2, p2, Missing)
                   \cup DriveTree(g))) :
        d1 \in RootDescriptors, d2 \in RootDescriptors, p1 \in PrimaryStates,
        p2 \in PrimaryStates, g \in DriveStates }
    \cup { Machine("linux", links, FsOf(RootTree(LocalShare, d, p, OneUser) \cup DriveTree(g))) :
             links \in { {}, { << DotSteam, LocalShare >> } },
             d \in RootDescriptors, p \in PrimaryStates, g \in DriveStates }
    \cup { Machine("linux", {}, FsOf(RootTree(DotSteam, d, p, OneUser) \cup DriveTree(g))) :
             d \in RootDescriptors, p \in PrimaryStates, g \in DriveStates }

WinRoot == << <<"C", ":">>, <<"P", "r", "o", "g", "r", "a", "m", " ", "F", "i", "l", "e", "s", " ", "(", "x", "8", "6", ")">>, <<"S", "t", "e", "a", "m">> >>

WinRoot64 == << <<"C", ":">>, <<"P", "r", "o", "g", "r", "a", "m", " ", "F", "i", "l", "e", "s">>, <<"S", "t", "e", "a", "m">> >>

\* win32: PROGRAMFILES unset, or (a 32-bit process) the x86 directory; a machine
\* of another platform; a machine without Steam
OtherMachines ==
    { [Machine("win32", {}, FsOf(RootTree(WinRoot, Missing, Listing(<< GameA >>), OneUser) \cup extra))
          EXCEPT !.programFiles = pf, !.programFilesX86 = pf86] :
        pf \in { <<>>, <<"C", ":", "\\", "P", "r", "o", "g", "r", "a", "m", " ", "F", "i", "l", "e", "s", " ", "(", "x", "8", "6", ")">>, <<"C", ":", "/", "P", "r", "o", "g", "r", "a", "m", " ", "F", "i", "l", "e", "s", " ", "(", "x", "8", "6", ")", "/">> },
        pf86 \in { <<>>, <<"C", ":", "\\", "P", "r", "o", "g", "r", "a", "m", " ", "F", "i", "l", "e", "s", " ", "(", "x", "8", "6", ")">> },
        extra \in { {}, RootTree(WinRoot64, Missing, Listing(<< GameB >>), Missing) } }
    \cup { Machine(pf, {}, FsOf(RootTree(LocalShare, Missing, Listing(<< GameA >>), OneUser))) :
             pf \in { "freebsd", "darwin" } }
    \cup { NoMachine }

ScanMachines == ManifestMachines \cup UserMachines \cup LinuxMachines \cup OtherMachines

\* ------------------------------------------------- inputs of isActualGame
PlainNames == { <<"P", "o", "r", "t", "a", "l">>, <<"H", "a", "l", "f", "-", "L", "i", "f", "e", " ", "2">>, <<"D", "e", "m", "o", "l", "i", "t", "i", "o", "n", " ", "S", "q", "u", "a", "d">>, <<"U", "n", "k", "n", "o", "w", "n">>, <<>>, <<" ", " ">>, <<" ", "C", "e", "l", "e", "s", "t", "e", " ">> }

\* every name pattern as written, in upper case, capitalised and inside a longer name
PatternNames ==
    UNION { { p, toUpperCase(p), <<UpperChar(Head(p))>> \o Tail(p), <<"M", "y", " ">> \o p \o <<" ", "2">> }
            : p \in SeqRange(nonGamePatterns) }

NameInputs == PlainNames \cup PatternNames

DirInputs ==
    { <<>>, <<"P", "o", "r", "t", "a", "l">>, <<"H", "a", "l", "f", "-", "L", "i", "f", "e", " ", "2">> }
    \cup UNION { { p, toUpperCase(p), <<"x">> \o p } : p \in SeqRange(nonGameDirPatterns) }

TypeInputs ==
    { <<>>, <<"g", "a", "m", "e">>, <<"G", "a", "m", "e">>, <<"t", "o", "o", "l">>, <<"T", "o", "o", "l">>, <<"C", "O", "N", "F", "I", "G">>, <<"c", "o", "n", "f", "i", "g">>, <<"A", "p", "p", "l", "i", "c", "a", "t", "i", "o", "n">>, <<"t", "o", "o", "l", "s">>,
      <<"d", "l", "c">> }

AppIdInputs == nonGameAppIds \cup { <<"4", "0", "0">>, <<"2", "2", "0">>, <<"2", "2", "8", "9", "8", "0", "0">>, <<"2", "2", "8", "9", "8">> }

CoreNames == { <<"P", "o", "r", "t", "a", "l">>, <<"D", "e", "m", "o", "l", "i", "t", "i", "o", "n", " ", "S", "q", "u", "a", "d">>, <<>>, <<" ", " ">>, <<"P", "r", "o", "t", "o", "n", " ", "7", ".", "0">> }

CoreDirs == { <<>>, <<"P", "o", "r", "t", "a", "l">>, <<"P", "r", "o", "t", "o", "n", "_", "R", "u", "n", "t", "i", "m", "e">> }

CoreTypes == { <<>>, <<"g", "a", "m", "e">>, <<"T", "o", "o", "l">> }

CoreAppIds == { <<"4", "0", "0">>, <<"2", "2", "8", "9", "8", "0">> }

\* the AppState objects with the given values of name, installdir and type,
\* each field present or left out
AppInfosOf(names, dirs, types) ==
    { [f \in D |-> CASE f = "name" -> n [] f = "installdir" -> d [] f = "type" -> t] :
        n \in names, d \in dirs, t \in types,
        D \in { {"name", "installdir", "type"}, {"name", "installdir"}, {"installdir", "type"} } }

\* every input varies against the core values of the others
ClassifierInputs ==
    (AppInfosOf(NameInputs, CoreDirs, CoreTypes) \X CoreAppIds)
    \cup (AppInfosOf(CoreNames, DirInputs, CoreTypes) \X CoreAppIds)
    \cup (AppInfosOf(CoreNames, CoreDirs, TypeInputs) \X CoreAppIds)
    \cup (AppInfosOf(CoreNames, CoreDirs, CoreTypes) \X AppIdInputs)

\* ------------------------------------------------- inputs of getSteamLibraries
LibBase == [linux |-> << <<"o", "p", "t">>, <<"S", "t", "e", "a", "m">> >>, win32 |-> << <<"C", ":">>, <<"S", "t", "e", "a", "m">> >>]

\* spellings of the installation root itself, of a second existing folder
\* and of a folder that does not exist
LibRawPaths ==
    [linux |-> { <<"/", "o", "p", "t", "/", "S", "t", "e", "a", "m">>, <<"/", "o", "p", "t", "/", "/", ".", "/", "S", "t", "e", "a", "m", "/">>, <<"/", "m", "n", "t", "/", "x", "/", ".", ".", "/", ".", ".", "/", "o", "p", "t", "/", "S", "t", "e", "a", "m">>, <<"\\", "\\", "m", "n", "t", "\\", "\\", "g", "a", "m", "e", "s">>,
                 <<"/", "m", "n", "t", "/", "g", "o", "n", "e">>, <<>> },
     win32 |-> { <<"C", ":", "\\", "S", "t", "e", "a", "m">>, <<"C", ":", "\\", "\\", "S", "t", "e", "a", "m">>, <<"C", ":", "/", "S", "t", "e", "a", "m", "/", ".">>, <<"D", ":", "\\", "g", "a", "m", "e", "s">>, <<"D", ":", "\\", "\\", "g", "o", "n", "e">>, <<>> }]

LibDirs ==
    [linux |-> { << <<"o", "p", "t">> >>, << <<"o", "p", "t">>, <<"S", "t", "e", "a", "m">> >>, << <<"o", "p", "t">>, <<"S", "t", "e", "a", "m">>, <<"s", "t", "e", "a", "m", "a", "p", "p", "s">> >>,
                 << <<"m", "n", "t">> >>, << <<"m", "n", "t">>, <<"x">> >>, << <<"m", "n", "t">>, <<"g", "a", "m", "e", "s">> >>,
                 << <<"m", "n", "t">>, <<"g", "a", "m", "e", "s">>, <<"s", "t", "e", "a", "m", "a", "p", "p", "s">> >> },
     win32 |-> { << <<"C", ":">> >>, << <<"C", ":">>, <<"S", "t", "e", "a", "m">> >>, << <<"C", ":">>, <<"S", "t", "e", "a", "m">>, <<"s", "t", "e", "a", "m", "a", "p", "p", "s">> >>,
                 << <<"D", ":">> >>, << <<"D", ":">>, <<"g", "a", "m", "e", "s">> >> }]

FolderKeys == { <<"1">>, <<"0">>, <<"l", "a", "b", "e", "l">> }

FolderVals(platform) ==
    { [kind |-> "string", path |-> r] : r \in LibRawPaths[platform] }
    \cup { [kind |-> "object", hasPath |-> h, path |-> r] :
             h \in BOOLEAN, r \in { CHOOSE x \in LibRawPaths[platform] : x # <<>>, <<>> } }

\* the folder values that descriptors of several folders are made of: three
\* spellings of the root, the second folder, a folder that does not exist
\* and an object without a path
CoreFolderVals(platform) ==
    { v \in FolderVals(platform) : v.kind = "string" /\ v.path # <<>> }
    \cup { [kind |-> "object", hasPath |-> FALSE, path |-> <<>>] }

\* the objects with at most n keys, as sequences of [key, val]
RECURSIVE Objects(_, _, _)
Objects(keys, vals, n) ==
    IF n = 0 THEN { <<>> }
    ELSE LET shorter == Objects(keys, vals, n - 1)
         IN  shorter \cup
             { Append(o, [key |-> k, val |-> v]) :
                 o \in { x \in shorter : Len(x) = n - 1 }, k \in keys, v \in vals }

DistinctKeys(o) == \A i, j \in 1..Len(o) : o[i].key = o[j].key => i = j

Descriptors(platform) ==
    { [t \in {top} |-> o] :
        top \in { "LibraryFolders", "libraryfolders" },
        o \in { x \in Objects(FolderKeys, CoreFolderVals(platform), MaxFolders) : DistinctKeys(x) } }
    \cup { [t \in {top} |-> << [key |-> <<"0">>, val |-> v] >>] :
             top \in { "LibraryFolders", "libraryfolders", "LIBRARYFOLDERS" },
             v \in FolderVals(platform) }

DescriptorPath(platform) == LibBase[platform] \o << <<"s", "t", "e", "a", "m", "a", "p", "p", "s">>, <<"l", "i", "b", "r", "a", "r", "y", "f", "o", "l", "d", "e", "r", "s", ".", "v", "d", "f">> >>

\* the machines that differ in the descriptor file: absent, unreadable, a
\* directory, or parsed to one of the Descriptors
LibMachines ==
    UNION { { Machine(pf, {}, FsOf({ <<d, Dir(<<>>)>> : d \in LibDirs[pf] } \cup extra)) :
                extra \in { {}, { <<DescriptorPath(pf), BadFile>> },
                            { <<DescriptorPath(pf), Dir(<<>>)>> } }
                          \cup { { <<DescriptorPath(pf), File(t)>> } : t \in Descriptors(pf) } }
            : pf \in { "linux", "win32" } }

\* ------------------------------------------------- inputs of the installed-state filter
FlagInputs ==
    { <<"0">>, <<"1">>, <<"2">>, <<"3">>, <<"4">>, <<"5">>, <<"6">>, <<"7">>, <<"8">>, <<"1", "2">>, <<"0", "4">>, <<" ", "4">>, <<"4", "x">>, <<"x">>,
      <<"-", "1">>, <<"-", "4">>, <<"+", "4">>, <<"5", "1", "6">>, <<"1", "0", "2", "6">>, <<>> }

FlagInfos ==
    { [appid |-> <<"4", "0", "0">>, name |-> <<"P", "o", "r", "t", "a", "l">>, StateFlags |-> f] : f \in FlagInputs }
    \cup { [appid |-> <<"4", "0", "0">>, name |-> <<"P", "o", "r", "t", "a", "l">>] }

\* ------------------------------------------------- inputs of the playtime merge
MinuteMaps ==
    { [a \in {} |-> 0], [a \in { <<"4", "0", "0">> } |-> 30], [a \in { <<"4", "0", "0">> } |-> 5],
      [a \in { <<"2", "2", "0">> } |-> 45], [a \in { <<"4", "0", "0">>, <<"2", "2", "0">> } |-> IF a = <<"4", "0", "0">> THEN 7 ELSE 45] }

MergeUserIds == { <<"1", "1">>, <<"2", "2">>, <<"3", "3">> }

UserPlaytimeInputs ==
    UNION { [us -> MinuteMaps] : us \in { x \in SUBSET MergeUserIds : Cardinality(x) <= MaxUsers } }

\* days 90, 60 and 70 (and one second later) and 110 of a clock at day 100
MergeInfos ==
    { [f \in D |-> CASE f = "PlaytimeForever" -> p [] f = "LastUpdated" -> l
                     [] f = "appid" -> <<"4", "0", "0">>] :
        p \in { <<"1", "0">>, <<"0">>, <<"-", "5">>, <<"a", "b", "c">>, <<"1", "2", " ", "m", "i", "n">>, <<>> },
        l \in { <<"7", "7", "7", "6", "0", "0", "0">>, <<"5", "1", "8", "4", "0", "0", "0">>, <<"6", "0", "4", "8", "0", "0", "0">>, <<"6", "0", "4", "8", "0", "0", "1">>, <<"9", "5", "0", "4", "0", "0", "0">>, <<"0">>, <<"s", "o", "o", "n">>, <<>> },
        D \in { {"appid", "PlaytimeForever", "LastUpdated"}, {"appid", "LastUpdated"},
                {"appid", "PlaytimeForever"}, {"appid"} } }

\* the names a section of localconfig.vdf is written under: the two spellings
\* Steam writes, capitals, and a different section in its place
SectionKeys(Name, name) == { Name, name, toUpperCase(name), <<"f", "r", "i", "e", "n", "d", "s">> }

\* the record of one title: a playtime field in some spelling or another field
TitleRecords ==
    { Field(k, v) : k \in { <<"P", "l", "a", "y", "t", "i", "m", "e">>, <<"p", "l", "a", "y", "t", "i", "m", "e">>, <<"P", "L", "A", "Y", "T", "I", "M", "E">>, <<"L", "a", "s", "t", "P", "l", "a", "y", "e", "d">> },
                    v \in { <<"3", "0">>, <<"0">>, <<"-", "5">>, <<"a", "b", "c">>, <<"1", "2", "a", "b", "c">>, <<>> } }

TitleTables ==
    { [a \in { <<"4", "0", "0">> } |-> r] : r \in TitleRecords }
    \cup { [a \in { <<"4", "0", "0">>, <<"2", "2", "0">> } |-> IF a = <<"4", "0", "0">> THEN r400 ELSE r220] :
             r400 \in { Field(<<"P", "l", "a", "y", "t", "i", "m", "e">>, <<"3", "0">>), Field(<<"P", "l", "a", "y", "T", "i", "m", "e">>, <<"3", "0">>) },
             r220 \in { Field(<<"p", "l", "a", "y", "t", "i", "m", "e">>, <<"4", "5">>), Field(<<"p", "l", "a", "y", "t", "i", "m", "e">>, <<"0">>) } }

PlaytimeConfigs ==
    { Missing, BadFile }
    \cup { LocalConfig(store, software, valve, steam, apps, table) :
             store \in SectionKeys(<<"U", "s", "e", "r", "L", "o", "c", "a", "l", "C", "o", "n", "f", "i", "g", "S", "t", "o", "r", "e">>, <<"u", "s", "e", "r", "l", "o", "c", "a", "l", "c", "o", "n", "f", "i", "g", "s", "t", "o", "r", "e">>),
             software \in SectionKeys(<<"S", "o", "f", "t", "w", "a", "r", "e">>, <<"s", "o", "f", "t", "w", "a", "r", "e">>),
             valve \in SectionKeys(<<"V", "a", "l", "v", "e">>, <<"v", "a", "l", "v", "e">>),
             steam \in SectionKeys(<<"S", "t", "e", "a", "m">>, <<"s", "t", "e", "a", "m">>),
             apps \in SectionKeys(<<"A", "p", "p", "s">>, <<"a", "p", "p", "s">>),
             table \in TitleTables }

ProfilePath == MacRoot \o << <<"u", "s", "e", "r", "d", "a", "t", "a">>, <<"1", "1">> >>

ConfigPath == ProfilePath \o << <<"c", "o", "n", "f", "i", "g">>, <<"l", "o", "c", "a", "l", "c", "o", "n", "f", "i", "g", ".", "v", "d", "f">> >>

\* one profile directory with the given localconfig.vdf
ProfileMachine(config) ==
    Machine("darwin", {},
            FsOf({ << ProfilePath, Dir(<< <<"c", "o", "n", "f", "i", "g">> >>) >> }
                 \cup (IF config.kind = "missing" THEN {} ELSE { << ConfigPath, config >> })))

InitClassifier ==
    /\ env = NoMachine
    /\ \E in \in ClassifierInputs :
         call = [fn |-> "isActualGame", appInfo |-> in[1], appid |-> in[2], done |-> FALSE,
                 out |-> FALSE]

InitLibraries ==
    /\ env \in LibMachines
    /\ call = [fn |-> "getSteamLibraries", basePath |-> LibBase[env.platform],
               done |-> FALSE, out |-> <<>>]

InitFilter ==
    /\ env = NoMachine
    /\ \E info \in FlagInfos :
         call = [fn |-> "installedFilter", info |-> info, done |-> FALSE, out |-> FALSE]

InitMerge ==
    /\ env = NoMachine
    /\ \E ups \in UserPlaytimeInputs, info \in MergeInfos :
         call = [fn |-> "mergePlaytime", ups |-> ups, info |-> info, appid |-> info["appid"],
                 done |-> FALSE, out |-> Num(0)]

InitPlaytime ==
    /\ \E config \in PlaytimeConfigs : env = ProfileMachine(config)
    /\ call = [fn |-> "readUserPlaytime", userPath |-> ProfilePath, done |-> FALSE,
               out |-> EmptyMap]

InitFn ==
    /\ UiIdle /\ ScanIdle
    /\ (InitClassifier \/ InitLibraries \/ InitFilter \/ InitMerge \/ InitPlaytime)

CallIsActualGame ==
    /\ call.fn = "isActualGame" /\ ~call.done
    /\ call' = [call EXCEPT !.done = TRUE, !.out = isActualGame(call.appInfo, call.appid)]
    /\ UNCHANGED << uiVars, env, scanVars >>

CallGetSteamLibraries ==
    /\ call.fn = "getSteamLibraries" /\ ~call.done
    /\ call' = [call EXCEPT !.done = TRUE, !.out = getSteamLibraries(call.basePath)]
    /\ UNCHANGED << uiVars, env, scanVars >>

CallInstalledFilter ==
    /\ call.fn = "installedFilter" /\ ~call.done
    /\ call' = [call EXCEPT !.done = TRUE, !.out = installedFilter(call.info)]
    /\ UNCHANGED << uiVars, env, scanVars >>

CallMergePlaytime ==
    /\ call.fn = "mergePlaytime" /\ ~call.done
    /\ call' = [call EXCEPT !.done = TRUE,
                            !.out = mergePlaytime(call.ups, call.info, call.appid)]
    /\ UNCHANGED << uiVars, env, scanVars >>

CallReadUserPlaytime ==
    /\ call.fn = "readUserPlaytime" /\ ~call.done
    /\ call' = [call EXCEPT !.done = TRUE, !.out = readUserPlaytime(call.userPath)]
    /\ UNCHANGED << uiVars, env, scanVars >>

NextFn ==
    \/ CallIsActualGame
    \/ CallGetSteamLibraries
    \/ CallInstalledFilter
    \/ CallMergePlaytime
    \/ CallReadUserPlaytime

\* the functions of main.js, each applied once to one of its inputs
SpecFn == InitFn /\ [][NextFn]_vars

\* ------------------------------------------------- one get-games call
NoCall == [fn |-> "none"]

Init == env \in ScanMachines /\ call = NoCall /\ ScanIdle /\ UiIdle

Next == GetGames \/ EnterBase \/ EnterLibrary \/ ReadManifest \/ ThumbnailSettles

\* one invocation of get-games on one machine
Spec == Init /\ [][Next]_vars

\* ------------------------------------------------- the renderer
UiGame(appid, title, playtime) == [appid |-> appid, title |-> title, playtime |-> playtime]

Portal == UiGame(<<"4", "0", "0">>, <<"P", "o", "r", "t", "a", "l">>, 30)

HalfLife == UiGame(<<"2", "2", "0">>, <<"H", "a", "l", "f", "-", "L", "i", "f", "e", " ", "2">>, 75)

Celeste == UiGame(<<"7", "4", "0">>, <<"c", "e", "l", "e", "s", "t", "e">>, 0)

\* the lists a get-games call may answer with
UiCatalogs == { <<>>, << Portal >>, << Portal, HalfLife >>, << Portal, HalfLife, Celeste >> }

SearchTerms == { <<>>, <<"P">>, <<"l", "i", "f", "e">>, <<"z", "z">> }

SortTypes == { "name", "playtime", "recent" }

\* the click on #refresh-games: loadGames up to its await
RefreshClick ==
    /\ started < MaxLoads
    /\ gamesCount' = [text |-> "Refreshing...", n |-> 0]
    /\ inFlight' = inFlight + 1
    /\ started' = started + 1
    /\ UNCHANGED << uiAllGames, filteredGames, currentSort, activeSort, gamesGrid,
                    sidebarLibrary, searchBoxes, lastLoad, env, call, scanVars >>

\* getGames resolves with a list: the try block of loadGames
LoadSucceeds ==
    /\ inFlight > 0
    /\ \E games \in UiCatalogs :
         /\ uiAllGames' = games
         /\ SortAndRender(currentSort, games)
    /\ inFlight' = inFlight - 1
    /\ lastLoad' = "returned"
    /\ UNCHANGED << searchBoxes, started, env, call, scanVars >>

\* getGames rejects: the catch block of loadGames
LoadFails ==
    /\ inFlight > 0
    /\ LoadFailed
    /\ inFlight' = inFlight - 1
    /\ lastLoad' = "error"
    /\ UNCHANGED << searchBoxes, started, env, call, scanVars >>

\* an input event of one of the two search boxes: filterGames, then the other
\* box takes the same value
SearchInput ==
    /\ \E box \in { "libraryFilter", "mainSearch" }, value \in SearchTerms :
         /\ SortAndRender(currentSort,
                          SelectSeq(uiAllGames,
                                    LAMBDA g : includes(toLowerCase(g.title), toLowerCase(value))))
         /\ searchBoxes' = [libraryFilter |-> value, mainSearch |-> value]
    /\ UNCHANGED << uiAllGames, inFlight, started, lastLoad, env, call, scanVars >>

\* a click on one of the three sort buttons
SortClick ==
    /\ \E type \in SortTypes : SortAndRender(type, filteredGames)
    /\ UNCHANGED << uiAllGames, searchBoxes, inFlight, started, lastLoad, env, call, scanVars >>

InitUI == env = NoMachine /\ call = NoCall /\ ScanIdle /\ UiInit

NextUI == RefreshClick \/ LoadSucceeds \/ LoadFails \/ SearchInput \/ SortClick

\* the page of script.js, get-games answering each call with a list or an Error
SpecUI == InitUI /\ [][NextUI]_vars

\* ------------------------------------------------- claims
TitleIds(games) == { games[i].appid : i \in 1..Len(games) }

\* C1: in the list one get-games call returns, no two entries have the same
\* appid, whatever the roots, libraries and manifests are.
C1_UniqueIdentifiers ==
    outcome = "returned" =>
        \A i, j \in 1..Len(delivered) : delivered[i].appid = delivered[j].appid => i = j

\* C2 as stated: flags 4 pass the installed-state filter, flags 0, 1, 2, 3 and 5
\* are all rejected by it.
C2_Flags5Rejected ==
    (call.fn = "installedFilter" /\ call.done /\ "StateFlags" \in DOMAIN call.info) =>
        /\ call.info["StateFlags"] = <<"4">> => call.out
        /\ call.info["StateFlags"] \in { <<"0">>, <<"1">>, <<"2">>, <<"3">>, <<"5">> } => ~call.out

\* C2 amended: flags 4 pass the installed-state filter and flags 0, 1, 2 and 3
\* are rejected by it; flags 5, which have the bit of value 4 set, pass.
C2_FlagsBit4 ==
    (call.fn = "installedFilter" /\ call.done /\ "StateFlags" \in DOMAIN call.info) =>
        /\ call.info["StateFlags"] \in { <<"4">>, <<"5">> } => call.out
        /\ call.info["StateFlags"] \in { <<"0">>, <<"1">>, <<"2">>, <<"3">> } => ~call.out

C2_Witness ==
    call.fn = "installedFilter" /\ call.done /\ "StateFlags" \in DOMAIN call.info
    /\ call.info["StateFlags"] = <<"5">> /\ call.out

\* the manifest file at path p holds an AppState with an identifier, the
\* fully-installed bit and the classifier's approval, and e was made from it
MadeFrom(e, p) ==
    /\ existsSync(p) /\ env.fs[Real(p)].kind = "file" /\ env.fs[Real(p)].ok
    /\ "AppState" \in DOMAIN env.fs[Real(p)].tree
    /\ LET info == env.fs[Real(p)].tree["AppState"]
       IN  /\ e.raw = info
           /\ e.appid # <<>>
           /\ \/ "appid" \in DOMAIN info /\ e.appid = info["appid"]
              \/ "AppID" \in DOMAIN info /\ e.appid = info["AppID"]
           /\ "StateFlags" \in DOMAIN info
           /\ BitAnd4(parseInt(info["StateFlags"])) = 4
           /\ isActualGame(info, e.appid)

\* C3: every entry of the list was produced from one manifest file that parsed,
\* has an identifier, has the fully-installed bit set and was accepted by
\* isActualGame; every entry has a title that is not empty.
C3_EntriesFromQualifyingManifests ==
    /\ Len(origin) = Len(allGames)
    /\ \A i \in 1..Len(allGames) :
         MadeFrom(allGames[i], origin[i]) /\ trim(allGames[i].title) # <<>>
    /\ delivered \in { <<>>, allGames }

C3_Witness ==
    pc = "done" /\ outcome = "returned" /\ Len(delivered) = 1 /\ Len(manifests) = 2

RECURSIVE SetMax(_)
SetMax(S) == IF S = {} THEN 0 ELSE LET x == CHOOSE x \in S : \A y \in S : y <= x IN x

\* the playtime the merge rule of the specification gives
StatedPlaytime(ups, info, now) ==
    LET most == SetMax({ IF info["appid"] \in DOMAIN ups[u] THEN ups[u][info["appid"]] ELSE 0 :
                           u \in DOMAIN ups })
        own == IF "PlaytimeForever" \in DOMAIN info THEN parseInt(info["PlaytimeForever"]) ELSE NaN
        updated == IF "LastUpdated" \in DOMAIN info THEN parseInt(info["LastUpdated"]) ELSE NaN
    IN  IF most > 0 THEN most
        ELSE IF ~own.nan /\ own.v > 0 THEN own.v
        ELSE IF ~updated.nan /\ now - updated.v < 30 * 24 * 60 * 60 THEN 1
        ELSE 0

\* C4: the playtime of an entry is a non-negative integer: the maximum over the
\* users, else the manifest's total playtime when present and positive, else
\* 1 when last updated less than 30 days ago, else 0.
C4_PlaytimeMerge ==
    (call.fn = "mergePlaytime" /\ call.done) =>
        /\ ~call.out.nan /\ call.out.v >= 0
        /\ call.out.v = StatedPlaytime(call.ups, call.info, env.now)

\* the five checks of the classifier, as a conjunction
PassesEveryCheck(appInfo, appid) ==
    LET name == IF "name" \in DOMAIN appInfo THEN appInfo["name"] ELSE <<>>
        dir == IF "installdir" \in DOMAIN appInfo THEN appInfo["installdir"] ELSE <<>>
        type == IF "type" \in DOMAIN appInfo THEN appInfo["type"] ELSE <<>>
    IN  /\ toLowerCase(type) \notin { <<"t", "o", "o", "l">>, <<"c", "o", "n", "f", "i", "g">>, <<"a", "p", "p", "l", "i", "c", "a", "t", "i", "o", "n">> }
        /\ trim(name) # <<>>
        /\ \A p \in SeqRange(nonGameDirPatterns) : ~includes(toLowerCase(dir), p)
        /\ \A p \in SeqRange(nonGamePatterns) : ~includes(toLowerCase(name), p)
        /\ appid \notin nonGameAppIds

\* C5: isActualGame accepts a record exactly when it passes every check, in any
\* order of the checks; an excluded identifier is rejected whatever the name,
\* and a name containing "demo" in any casing is rejected.
C5_ClassifierAcceptsIffEveryCheck ==
    (call.fn = "isActualGame" /\ call.done) =>
        /\ call.out = PassesEveryCheck(call.appInfo, call.appid)
        /\ call.appid \in nonGameAppIds => ~call.out
        /\ ("name" \in DOMAIN call.appInfo
            /\ includes(toLowerCase(call.appInfo["name"]), <<"d", "e", "m", "o">>)) => ~call.out

C5_Witness ==
    /\ call.fn = "isActualGame" /\ call.done /\ ~call.out
    /\ call.appid = <<"4", "0", "0">>
    /\ call.appInfo = [name |-> <<"D", "e", "m", "o", "l", "i", "t", "i", "o", "n", " ", "S", "q", "u", "a", "d">>, installdir |-> <<"P", "o", "r", "t", "a", "l">>, type |-> <<"g", "a", "m", "e">>]

Count(seq, x) == Cardinality({ k \in 1..Len(seq) : seq[k] = x })

\* C6: one thumbnail lookup is attempted for each accepted title, and a failed
\* lookup leaves that title in the catalog with its playtime, its thumbnail
\* unset, every other thumbnail being the result of its own lookup.
C6_OneLookupPerTitle ==
    (pc = "done" /\ outcome = "returned") =>
        /\ \A id \in TitleIds(delivered) : Count(lookups, id) = 1
        /\ \A i \in 1..Len(delivered) :
             /\ lookups[i] = delivered[i].appid
             /\ delivered[i].thumbnail.set => delivered[i].thumbnail.url = HeaderImage(lookups[i])

\* C7: the failure of one source (descriptor, user configuration, userdata,
\* one manifest, the listing of one library) never propagates: get-games
\* returns a list, not an Error.
C7_NoSourceFailurePropagates == pc = "done" => outcome = "returned"

\* C8: a get-games call ends with the complete list (the empty one when there
\* is no installation root) or with one Error and no entries at all; the
\* caller never receives part of a list.
C8_AllOrNothing ==
    /\ pc # "done" => outcome = "none" /\ delivered = <<>>
    /\ pc = "done" => outcome \in { "returned", "error" }
    /\ outcome = "error" => delivered = <<>>
    /\ outcome = "returned" =>
         /\ delivered = allGames
         /\ Len(delivered) = Len(lookups)
         /\ steamBases = getSteamPaths
         /\ steamBases = <<>> \/ bi > Len(steamBases)
    /\ (pc = "done" /\ getSteamPaths = <<>>) => outcome = "returned" /\ delivered = <<>>

C8_Witness == pc = "done" /\ outcome = "error" /\ Len(allGames) >= 1

\* C9: while the latest get-games call has failed, the grid shows neither the
\* "No games found" view of an empty catalog nor the cards of an earlier one.
C9_FailureShown ==
    lastLoad = "error" => gamesGrid.view \notin { "No games found", "cards" }

\* C10: getSteamLibraries returns the root's own steamapps first and no library
\* twice, a declared folder that normalizes to the root appearing once; without
\* a descriptor that parses, the result is the primary library alone.
C10_PrimaryFirstNoDuplicates ==
    (call.fn = "getSteamLibraries" /\ call.done) =>
        LET primary == call.basePath \o << <<"s", "t", "e", "a", "m", "a", "p", "p", "s">> >>
            descriptor == call.basePath \o << <<"s", "t", "e", "a", "m", "a", "p", "p", "s">>, <<"l", "i", "b", "r", "a", "r", "y", "f", "o", "l", "d", "e", "r", "s", ".", "v", "d", "f">> >>
        IN  /\ Len(call.out) >= 1 /\ call.out[1] = primary
            /\ \A i, j \in 1..Len(call.out) : call.out[i] = call.out[j] => i = j
            /\ (descriptor \notin DOMAIN env.fs \/ env.fs[descriptor].kind # "file"
                \/ ~env.fs[descriptor].ok) => call.out = << primary >>

\* the descriptor declares, under a numeric key and in another spelling, the
\* root itself, and another library besides
C10_Witness ==
    /\ call.fn = "getSteamLibraries" /\ call.done /\ Len(call.out) = 2
    /\ env.platform = "linux"
    /\ LET descriptor == call.basePath \o << <<"s", "t", "e", "a", "m", "a", "p", "p", "s">>, <<"l", "i", "b", "r", "a", "r", "y", "f", "o", "l", "d", "e", "r", "s", ".", "v", "d", "f">> >>
       IN  /\ descriptor \in DOMAIN env.fs /\ env.fs[descriptor].kind = "file"
           /\ env.fs[descriptor].ok
           /\ "libraryfolders" \in DOMAIN env.fs[descriptor].tree
           /\ LET folders == env.fs[descriptor].tree["libraryfolders"]
              IN  \E i \in 1..Len(folders) :
                    /\ folders[i].key = <<"0">>
                    /\ folders[i].val = [kind |-> "string", path |-> <<"/", "m", "n", "t", "/", "x", "/", ".", ".", "/", ".", ".", "/", "o", "p", "t", "/", "S", "t", "e", "a", "m">>]

\* ------------------------------------------------- C11
\* the keys of obj that are name in some letter casing
KeysNamed(obj, name) == { k \in DOMAIN obj : toLowerCase(k) = name }

Named(obj, name) == obj[CHOOSE k \in KeysNamed(obj, name) : TRUE]

SectionPath == << <<"u", "s", "e", "r", "l", "o", "c", "a", "l", "c", "o", "n", "f", "i", "g", "s", "t", "o", "r", "e">>, <<"s", "o", "f", "t", "w", "a", "r", "e">>, <<"v", "a", "l", "v", "e">>, <<"s", "t", "e", "a", "m">>, <<"a", "p", "p", "s">> >>

RECURSIVE Descend(_, _)
Descend(obj, names) ==
    IF names = <<>> THEN [found |-> TRUE, node |-> obj]
    ELSE IF KeysNamed(obj, Head(names)) = {} THEN [found |-> FALSE, node |-> obj]
    ELSE Descend(Named(obj, Head(names)), Tail(names))

\* the map C11 states for a localconfig.vdf: the titles whose playtime field,
\* named in any casing under sections named in any casing, parses above zero
StatedPlaytimes(config) ==
    IF config.kind = "missing" \/ ~config.ok THEN EmptyMap
    ELSE LET table == Descend(config.tree, SectionPath)
             Minutes(a) == IF KeysNamed(table.node[a], <<"p", "l", "a", "y", "t", "i", "m", "e">>) = {} THEN NaN
                           ELSE parseInt(Named(table.node[a], <<"p", "l", "a", "y", "t", "i", "m", "e">>))
         IN  IF ~table.found THEN EmptyMap
             ELSE LET kept == { a \in DOMAIN table.node : ~Minutes(a).nan /\ Minutes(a).v > 0 }
                  IN  [a \in kept |-> Minutes(a).v]

ConfigOf(machine) ==
    IF ConfigPath \in DOMAIN machine.fs THEN machine.fs[ConfigPath] ELSE Missing

\* C11: readUserPlaytime returns exactly the titles whose playtime field parses
\* to a strictly positive integer, the sections on the way to the table of
\* titles and the playtime field being matched in any letter casing, and the
\* empty map when a section is missing at any depth.
C11_PlaytimesInAnyCasing ==
    (call.fn = "readUserPlaytime" /\ call.done) => call.out = StatedPlaytimes(ConfigOf(env))

====
